---- MODULE Spec2Model ----
(***************************************************************************)
(* A model of spacestills/gui.py: the StillFrame class, the downloader,    *)
(* the timer helpers, the interval validator and the event loop of main(). *)
(* Time is the value of datetime.now() in whole seconds.                   *)
(***************************************************************************)
EXTENDS Integers, Sequences, FiniteSets, TLC

\* ---------------------------------------------------------------- constants
WIDTH == 704
HEIGHT == 480
HEIGHT_16_9 == 396
MIN_DELTA == 45
DELTA == MIN_DELTA
MAX_DELTA == 300

\* ------------------------------------------------------------------- bounds
\* The clock stops advancing at MaxTime, and advances by Step seconds.
MaxTime == 90
Step == 45
\* Longest text typed into the '-DELTA-' input that the validator is run on.
MaxLen == 3

\* -------------------------------------------------------- text and integers
Digits == <<"0", "1", "2", "3", "4", "5", "6", "7", "8", "9">>

DigitChars == {Digits[i] : i \in 1..10}

\* Characters the user types into the '-DELTA-' input.
Alphabet == {"0", "1", "3", "4", "5", "-", "a"}

DigitVal(c) == (CHOOSE i \in 1..10 : Digits[i] = c) - 1

RECURSIVE DigitsVal(_)
DigitsVal(s) ==
    IF s = <<>> THEN 0
    ELSE 10 * DigitsVal(SubSeq(s, 1, Len(s) - 1)) + DigitVal(s[Len(s)])

IsDigits(s) == Len(s) > 0 /\ \A i \in 1..Len(s) : s[i] \in DigitChars

\* int(value) of a str made of the characters of Alphabet: an optional "-"
\* followed by decimal digits; anything else raises ValueError.
ParseInt(s) ==
    IF IsDigits(s) THEN [ok |-> TRUE, n |-> DigitsVal(s)]
    ELSE IF Len(s) > 1 /\ s[1] = "-" /\ IsDigits(Tail(s))
         THEN [ok |-> TRUE, n |-> 0 - DigitsVal(Tail(s))]
         ELSE [ok |-> FALSE, n |-> 0]

\* str(n) for n >= 0.
RECURSIVE ToStr(_)
ToStr(n) ==
    IF n < 10 THEN <<Digits[n + 1]>>
    ELSE Append(ToStr(n \div 10), Digits[(n % 10) + 1])

RECURSIVE TextsOfLen(_)
TextsOfLen(k) ==
    IF k = 0 THEN {<<>>}
    ELSE {Append(s, c) : s \in TextsOfLen(k - 1), c \in Alphabet}

Texts == UNION {TextsOfLen(k) : k \in 0..MaxLen}

\* Texts the user types into the '-DELTA-' input while the event loop runs.
SampleTexts ==
    {<<"4", "5">>, <<"4", "6">>, <<"4", "4">>, <<"a">>}

\* ------------------------------------------------------------------ images
NativeSize == <<WIDTH, HEIGHT>>
CorrectedSize == <<WIDTH, HEIGHT_16_9>>

\* Sizes of the images the feed serves.
FeedSizes == {NativeSize, <<640, 360>>}

FeedFormats == {"JPEG", "PNG"}

MkImage(size, format, content) ==
    [size |-> size, format |-> format, content |-> content]

make_blank_image == MkImage(NativeSize, "NONE", "blank")

\* PIL's Image.resize: a scaled copy, which carries no file format.
ImageResize(image, new_size) == MkImage(new_size, "NONE", image.content)

\* Saving to PNG and opening the result.
topng(image) ==
    IF image.format # "PNG" THEN MkImage(image.size, "PNG", image.content)
    ELSE image

StillFrame(image) == [image |-> topng(image), original |-> topng(image)]

bytes(still) == MkImage(still.image.size, "PNG", still.image.content)

\* Nothing shown or written yet; no frame constructed yet.
NoBytes == MkImage(<<0, 0>>, "NONE", "none")

NoStill == [image |-> NoBytes, original |-> NoBytes]

new_size(still) ==
    IF still.image.size = still.original.size THEN <<WIDTH, HEIGHT_16_9>>
    ELSE <<WIDTH, HEIGHT>>

resize(still, size) ==
    IF still.image.size # size
    THEN [still EXCEPT !.image = ImageResize(still.image, size)]
    ELSE still

\* ---------------------------------------------------------------- download
\* What requests.get and Image.open can do on one call.
Responses ==
    [kind : {"ok"}, size : FeedSizes, format : FeedFormats]
    \cup [kind : {"status", "timeout", "connection_error", "undecodable"},
          size : {NativeSize}, format : {"NONE"}]

\* The exceptions download_image catches.
Caught == {"timeout"}

\* download_image: the image returned, or the exception that leaves the call.
download_image(r) ==
    IF r.kind = "ok"
    THEN [raised |-> FALSE, image |-> MkImage(r.size, r.format, "feed")]
    ELSE IF r.kind = "status"
    THEN [raised |-> FALSE, image |-> make_blank_image]
    ELSE IF r.kind \in Caught
    THEN [raised |-> FALSE, image |-> make_blank_image]
    ELSE [raised |-> TRUE, image |-> make_blank_image]

\* A refresh that drops its resize argument.
refresh_noresize(image, resizeFlag) == StillFrame(image)

\* refresh: the new frame (the display shows its bytes).
refresh(image, resizeFlag) ==
    IF resizeFlag THEN resize(StillFrame(image), <<WIDTH, HEIGHT_16_9>>)
    ELSE StillFrame(image)

\* ---------------------------------------------------------------- validator
\* A validator that clamps an out-of-range integer to the nearest bound.
validate_delta_clamp(v) ==
    LET p == ParseInt(v) IN
    IF ~p.ok THEN <<DELTA, FALSE>>
    ELSE IF p.n < MIN_DELTA THEN <<MIN_DELTA, FALSE>>
    ELSE IF p.n > MAX_DELTA THEN <<MAX_DELTA, FALSE>>
    ELSE <<p.n, TRUE>>

validate_delta(v) ==
    LET p == ParseInt(v)
        isinteger == p.ok
        delta0 == IF isinteger THEN p.n ELSE DELTA
        isvalid == MIN_DELTA <= delta0 /\ delta0 <= MAX_DELTA
    IN  <<IF isvalid THEN delta0 ELSE DELTA, isinteger /\ isvalid>>

\* -------------------------------------------------------------------- state
VARIABLES
    pc,                 \* "start", "loop", "closed" or "crashed"
    now,                \* datetime.now()
    delta,              \* main: delta
    next_reload_time,   \* main: next_reload_time
    current_still,      \* main: current_still
    image_elem,         \* bytes shown by window['-IMAGE-']
    resize_chk,         \* state of the '-RESIZE-' checkbox
    autoreload_chk,     \* state of the '-AUTORELOAD-' checkbox
    delta_field,        \* text of the '-DELTA-' input
    event,              \* event returned by window.read, when the last step
                        \* was an iteration of the loop ("none" otherwise)
    branch,             \* branch of the loop body that iteration took
    response,           \* outcome of the download of the last iteration
    filename,           \* popup_get_file result of the last iteration
    saved,              \* save() result of the last iteration
    popup,              \* arguments of popup_ok on the last iteration
    written,            \* bytes written to the file on the last iteration
    value,              \* text validate_delta was given on the last iteration
    valid,              \* validate_delta's flag on the last iteration
    io,                 \* what opening and writing the file did
    last_fetch,         \* time of the last download
    last_sched          \* time at which next_reload_time was last set

vars == <<pc, now, delta, next_reload_time, current_still, image_elem,
          resize_chk, autoreload_chk, delta_field, event, branch,
          response, filename, saved, popup, written, value, valid, io,
          last_fetch, last_sched>>

Events == {"__TIMEOUT__", "-RELOAD-", "-RESIZE-", "-SAVE-", "-UPDATE_DELTA-",
           "Exit", "WIN_CLOSED"}

ExitEvents == {"WIN_CLOSED", "Exit"}

Paths == {"a.png", "b.png"}

\* A next_timeout that forgets the interval.
next_timeout_nodelta(d) == now

next_timeout(d) == now + d

\* A timeout_due that is late by the instant of the deadline.
timeout_due_strict(deadline) == now > deadline

timeout_due(deadline) == now >= deadline

Init ==
    /\ pc = "start"
    /\ now = 0
    /\ delta = DELTA
    /\ next_reload_time = 0
    /\ current_still = NoStill
    /\ image_elem = NoBytes
    /\ resize_chk = FALSE
    /\ autoreload_chk = TRUE
    /\ delta_field = ToStr(DELTA)
    /\ event = "none"
    /\ branch = "none"
    /\ response = "none"
    /\ filename = ""
    /\ saved = "none"
    /\ popup = <<>>
    /\ written = NoBytes
    /\ value = <<>>
    /\ valid = "none"
    /\ io = "none"
    /\ last_fetch = 0
    /\ last_sched = 0

\* ------------------------------------------------------------ the event loop
\* window.read: the event, and the '-RESIZE-' value that comes with it (a
\* click on the checkbox flips it and is the '-RESIZE-' event).
ValuesResize(e) == IF e = "-RESIZE-" THEN ~resize_chk ELSE resize_chk

Poll(e, b) ==
    /\ pc = "loop"
    /\ event' = e
    /\ branch' = b
    /\ resize_chk' = ValuesResize(e)
    /\ UNCHANGED <<now, autoreload_chk>>

NoHist ==
    /\ response' = "none"
    /\ filename' = ""
    /\ saved' = "none"
    /\ popup' = <<>>
    /\ written' = NoBytes
    /\ value' = <<>>
    /\ valid' = "none"
    /\ io' = "none"

\* The condition of the reload branch.
ReloadCond(e) ==
    e = "-RELOAD-" \/ (autoreload_chk /\ timeout_due(next_reload_time))

\* main, down to the loop: the first refresh and the first deadline.
Start(r) ==
    /\ pc = "start"
    /\ LET d == download_image(r) IN
         IF d.raised
         THEN /\ pc' = "crashed"
              /\ UNCHANGED <<current_still, image_elem, next_reload_time,
                             last_sched>>
         ELSE /\ pc' = "loop"
              /\ current_still' = refresh(d.image, FALSE)
              /\ image_elem' = bytes(current_still')
              /\ next_reload_time' = now + DELTA
              /\ last_sched' = now
    /\ delta' = DELTA
    /\ response' = r.kind
    /\ last_fetch' = now
    /\ UNCHANGED <<now, resize_chk, autoreload_chk, delta_field, event,
                   branch, filename, saved, popup, written, value, valid, io>>

Exit(e) ==
    /\ e \in ExitEvents
    /\ Poll(e, "exit")
    /\ pc' = "closed"
    /\ NoHist
    /\ UNCHANGED <<delta, next_reload_time, current_still, image_elem,
                   delta_field, last_fetch, last_sched>>

\* A reload that reschedules whatever the '-AUTORELOAD-' checkbox says.
reschedule_always(auto, d, old) == next_timeout(d)

\* main: "if values['-AUTORELOAD-']: next_reload_time = next_timeout(delta)".
reschedule(auto, d, old) == IF auto THEN next_timeout(d) ELSE old

Reload(e, r) ==
    /\ e \notin ExitEvents
    /\ ReloadCond(e)
    /\ Poll(e, "reload")
    /\ LET d == download_image(r) IN
         IF d.raised
         THEN /\ pc' = "crashed"
              /\ UNCHANGED <<current_still, image_elem, next_reload_time,
                             last_sched>>
         ELSE /\ pc' = "loop"
              /\ current_still' = refresh(d.image, ValuesResize(e))
              /\ image_elem' = bytes(current_still')
              /\ next_reload_time' =
                    reschedule(autoreload_chk, delta, next_reload_time)
              /\ last_sched' = IF autoreload_chk THEN now ELSE last_sched
    /\ response' = r.kind
    /\ last_fetch' = now
    /\ filename' = ""
    /\ saved' = "none"
    /\ popup' = <<>>
    /\ written' = NoBytes
    /\ value' = <<>>
    /\ valid' = "none"
    /\ io' = "none"
    /\ UNCHANGED <<delta, delta_field>>

change_aspect_ratio(still, size) == resize(still, size)

Resize(e) ==
    /\ e \notin ExitEvents
    /\ ~ReloadCond(e)
    /\ e = "-RESIZE-"
    /\ Poll(e, "resize")
    /\ current_still' = change_aspect_ratio(current_still, new_size(current_still))
    /\ image_elem' = bytes(current_still')
    /\ NoHist
    /\ UNCHANGED <<pc, delta, next_reload_time, delta_field, last_fetch,
                   last_sched>>

\* A save that reports success whatever happened.
save_always_true(still, o) ==
    [saved |-> TRUE, written |-> IF o = "ok" THEN bytes(still) ELSE NoBytes]

\* save: True and the bytes written, or False on OSError.
save(still, o) ==
    IF o = "ok" THEN [saved |-> TRUE, written |-> bytes(still)]
    ELSE [saved |-> FALSE, written |-> NoBytes]

Save(e, f, o) ==
    /\ e \notin ExitEvents
    /\ ~ReloadCond(e)
    /\ e = "-SAVE-"
    /\ Poll(e, "save")
    /\ filename' = f
    /\ IF f # ""
       THEN LET s == save(current_still, o) IN
            /\ io' = o
            /\ saved' = IF s.saved THEN "True" ELSE "False"
            /\ written' = s.written
            /\ popup' = IF ~s.saved
                        THEN <<"Error while saving file:", f>> ELSE <<>>
       ELSE /\ io' = "none"
            /\ saved' = "none"
            /\ written' = NoBytes
            /\ popup' = <<>>
    /\ response' = "none"
    /\ value' = <<>>
    /\ valid' = "none"
    /\ UNCHANGED <<pc, delta, next_reload_time, current_still, image_elem,
                   delta_field, last_fetch, last_sched>>

UpdateDelta(e) ==
    /\ e \notin ExitEvents
    /\ ~ReloadCond(e)
    /\ e = "-UPDATE_DELTA-"
    /\ Poll(e, "update")
    /\ LET v == validate_delta(delta_field) IN
         /\ value' = delta_field
         /\ delta' = v[1]
         /\ valid' = IF v[2] THEN "True" ELSE "False"
         /\ delta_field' = IF ~v[2] THEN ToStr(DELTA) ELSE delta_field
    /\ response' = "none"
    /\ filename' = ""
    /\ saved' = "none"
    /\ popup' = <<>>
    /\ written' = NoBytes
    /\ io' = "none"
    /\ UNCHANGED <<pc, next_reload_time, current_still, image_elem, last_fetch,
                   last_sched>>

\* An iteration whose event matches no branch.
Idle(e) ==
    /\ e \notin ExitEvents
    /\ ~ReloadCond(e)
    /\ e \notin {"-RESIZE-", "-SAVE-", "-UPDATE_DELTA-"}
    /\ Poll(e, "idle")
    /\ NoHist
    /\ UNCHANGED <<pc, delta, next_reload_time, current_still, image_elem,
                   delta_field, last_fetch, last_sched>>

\* ---------------------------------------------------------- the environment
\* A step of the environment is not an iteration of the loop.
NoIteration == event' = "none" /\ branch' = "none" /\ NoHist

\* The user clicks the '-AUTORELOAD-' checkbox (which raises no event).
ToggleAutoReload ==
    /\ pc = "loop"
    /\ autoreload_chk' = ~autoreload_chk
    /\ NoIteration
    /\ UNCHANGED <<pc, now, delta, next_reload_time, current_still,
                   image_elem, resize_chk, delta_field, last_fetch,
                   last_sched>>

\* The user types into the '-DELTA-' input.
TypeDelta(txt) ==
    /\ pc = "loop"
    /\ delta_field # txt
    /\ delta_field' = txt
    /\ NoIteration
    /\ UNCHANGED <<pc, now, delta, next_reload_time, current_still,
                   image_elem, resize_chk, autoreload_chk, last_fetch,
                   last_sched>>

\* The clock advances.
Advance ==
    /\ pc = "loop"
    /\ now + Step <= MaxTime
    /\ now' = now + Step
    /\ NoIteration
    /\ UNCHANGED <<pc, delta, next_reload_time, current_still, image_elem,
                   resize_chk, autoreload_chk, delta_field, last_fetch,
                   last_sched>>

Iteration ==
    \E e \in Events :
        \/ Exit(e)
        \/ \E r \in Responses : Reload(e, r)
        \/ Resize(e)
        \/ \E f \in Paths \cup {""}, o \in {"ok", "OSError"} : Save(e, f, o)
        \/ UpdateDelta(e)
        \/ Idle(e)

Next ==
    \/ \E r \in Responses : Start(r)
    \/ \E e \in ExitEvents : Exit(e)
    \/ \E e \in Events \ ExitEvents, r \in Responses : Reload(e, r)
    \/ \E e \in Events \ ExitEvents : Resize(e)
    \/ \E e \in Events \ ExitEvents, f \in Paths \cup {""},
          o \in {"ok", "OSError"} : Save(e, f, o)
    \/ \E e \in Events \ ExitEvents : UpdateDelta(e)
    \/ \E e \in Events \ ExitEvents : Idle(e)
    \/ ToggleAutoReload
    \/ \E txt \in SampleTexts : TypeDelta(txt)
    \/ Advance

Spec == Init /\ [][Next]_vars

\* The loop never blocks: window.read(timeout=100) always returns.
FairSpec == Spec /\ WF_vars(Iteration)

\* The interval validator on every text of the input: the loop just started
\* (the first download got a non-200 answer), the user has typed a text and
\* presses 'Set'.
InitValidate ==
    /\ pc = "loop"
    /\ now = 0
    /\ delta = DELTA
    /\ next_reload_time = DELTA
    /\ current_still = StillFrame(make_blank_image)
    /\ image_elem = bytes(current_still)
    /\ resize_chk = FALSE
    /\ autoreload_chk = TRUE
    /\ delta_field \in Texts
    /\ event = "none"
    /\ branch = "none"
    /\ response = "status"
    /\ filename = ""
    /\ saved = "none"
    /\ popup = <<>>
    /\ written = NoBytes
    /\ value = <<>>
    /\ valid = "none"
    /\ io = "none"
    /\ last_fetch = 0
    /\ last_sched = 0

NextValidate == UpdateDelta("-UPDATE_DELTA-")

SpecValidate == InitValidate /\ [][NextValidate]_vars

\* ==================================================================== claims
\* The last step was an iteration of the loop body (not an exit).
IterationStep == branch' # "none"

FailureKinds == {"timeout", "status", "connection_error", "undecodable"}

\* C1: download_image never lets an exception escape: after a download that
\* met a timeout, a non-200 status, a connection failure or an undecodable
\* body the program is still running and the frame was built from the
\* placeholder of WIDTH x HEIGHT; only a decodable 200 answer gives the
\* downloaded image.
C1_DownloadNeverRaises ==
    /\ response \in FailureKinds =>
          /\ pc # "crashed"
          /\ current_still.original = topng(make_blank_image)
    /\ response = "ok" =>
          /\ pc # "crashed"
          /\ current_still.original.content = "feed"

\* C2: validate_delta gives (n, True) for a text that parses as an integer
\* n with MIN_DELTA <= n <= MAX_DELTA and (DELTA, False) for every other
\* text, so the interval it returns, and the interval of the loop, always
\* lies in [MIN_DELTA, MAX_DELTA].
C2_ValidateDelta ==
    /\ delta \in MIN_DELTA..MAX_DELTA
    /\ branch = "update" =>
          LET p == ParseInt(value) IN
          IF p.ok /\ 45 <= p.n /\ p.n <= 300
          THEN delta = p.n /\ valid = "True"
          ELSE delta = 45 /\ valid = "False"

C2_Witness ==
    /\ branch = "update"
    /\ value = <<"3", "0", "0">>
    /\ delta = 300
    /\ valid = "True"

\* C3: toggling the size of a frame that has its original size gives the
\* other of the two fixed sizes, and toggling the result again gives back the
\* size the frame was constructed with.
C3_ToggleTwice ==
    [][(branch' = "resize" /\ current_still.image.size = current_still.original.size)
        => /\ current_still'.image.size \in {NativeSize, CorrectedSize}
           /\ resize(current_still', new_size(current_still')).image.size
                 = current_still.original.size]_vars

\* C4: next_reload_time changes only in a reload made with auto-reload
\* enabled, where it becomes now + delta; an interval update, an aspect
\* toggle, a save, an idle iteration and a manual reload with auto-reload
\* disabled leave it unchanged, and a new interval is adopted without it.
C4_DeadlineFrame ==
    [][pc = "loop" =>
        /\ next_reload_time' # next_reload_time =>
              branch' = "reload" /\ autoreload_chk
        /\ (branch' = "reload" /\ autoreload_chk /\ pc' = "loop") =>
              next_reload_time' = now' + delta
        /\ branch' = "update" =>
              /\ next_reload_time' = next_reload_time
              /\ valid' = "True" => delta' = ParseInt(value').n
       ]_vars

C4_Witness ==
    /\ branch = "reload"
    /\ pc = "loop"
    /\ autoreload_chk
    /\ delta = 46
    /\ next_reload_time = now + 46
    /\ now > 0

\* C5: every '-RESIZE-' event is handled by resizing the current frame, with
\* no download on that iteration.
C5_ToggleNoFetch ==
    event = "-RESIZE-" => branch = "resize" /\ response = "none"

\* C6: a save with a chosen path returns False and shows an error naming
\* the path when the write fails, returns True and shows nothing when it
\* succeeds; a cancelled prompt writes and shows nothing; the frame, the
\* interval and the deadline are unchanged and the loop goes on.
C6_SaveOutcome ==
    branch = "save" =>
        /\ pc = "loop"
        /\ filename = "" =>
              io = "none" /\ saved = "none" /\ written = NoBytes /\ popup = <<>>
        /\ filename # "" =>
              /\ io \in {"ok", "OSError"}
              /\ io = "OSError" =>
                    /\ saved = "False"
                    /\ Len(popup) = 2 /\ popup[2] = filename
              /\ io = "ok" =>
                    /\ saved = "True"
                    /\ popup = <<>>
                    /\ written = bytes(current_still)

C6_SaveFrame ==
    [][branch' = "save" =>
          UNCHANGED <<current_still, image_elem, delta, next_reload_time>>]_vars

C6_Save == []C6_SaveOutcome /\ C6_SaveFrame

C6_Witness ==
    /\ branch = "save"
    /\ filename = "b.png"
    /\ io = "OSError"
    /\ saved = "False"
    /\ popup = <<"Error while saving file:", "b.png">>

\* C7: the deadline is due exactly when now >= deadline: it is not due right
\* after it was scheduled, and with auto-reload enabled an iteration without a
\* reload or exit event downloads if and only if the deadline is due; while
\* auto-reload stays enabled and the loop runs, a due deadline leads to a
\* reload.
C7_DueIff ==
    [][(IterationStep /\ autoreload_chk
            /\ event' \notin ExitEvents \cup {"-RELOAD-"})
        => ((branch' = "reload") <=> (now >= next_reload_time))]_vars

C7_NotDueWhenScheduled ==
    [][next_reload_time' # next_reload_time =>
          /\ ~(now' >= next_reload_time')
          /\ ~timeout_due(next_reload_time)']_vars

C7_DueLeadsToReload ==
    (pc = "loop" /\ autoreload_chk /\ now >= next_reload_time)
        ~> (now < next_reload_time \/ ~autoreload_chk \/ pc # "loop")

C7_Timer == C7_DueIff /\ C7_NotDueWhenScheduled /\ C7_DueLeadsToReload

C7_Witness ==
    /\ branch = "reload"
    /\ event = "__TIMEOUT__"
    /\ pc = "loop"
    /\ last_fetch >= MIN_DELTA
    /\ next_reload_time = now + delta

\* C8: when the frame was built from an image of the native size, after
\* every iteration its size is 704x396 if '-RESIZE-' is checked and 704x480
\* if not, and the window shows the frame's bytes.
C8_SizeMatchesCheckbox ==
    pc \in {"loop", "closed"} =>
        /\ image_elem = bytes(current_still)
        /\ current_still.original.size = NativeSize =>
              current_still.image.size =
                 IF resize_chk THEN <<704, 396>> ELSE <<704, 480>>

C8_Witness ==
    /\ pc = "loop"
    /\ event = "-RESIZE-"
    /\ branch = "reload"
    /\ resize_chk
    /\ current_still.original.size = NativeSize
    /\ current_still.image.size = <<704, 396>>

\* C9: every '-SAVE-' event prompts for a path and every '-UPDATE_DELTA-'
\* event validates the input, a valid one becoming the interval, also on an
\* iteration where the deadline is due.
C9_NoRequestLost ==
    /\ event = "-SAVE-" => branch = "save"
    /\ event = "-UPDATE_DELTA-" => branch = "update"

\* C10 as stated: an automatic reload is never less than MIN_DELTA seconds
\* after the previous download.
C10_AfterPreviousFetch ==
    [][(branch' = "reload" /\ event' # "-RELOAD-")
          => now - last_fetch >= MIN_DELTA]_vars

\* C10 amended: an automatic reload is never less than MIN_DELTA seconds
\* after the deadline was last scheduled, that is after the first download
\* or the last reload made with auto-reload enabled.
C10_AfterLastSchedule ==
    [][(branch' = "reload" /\ event' # "-RELOAD-")
          => now - last_sched >= MIN_DELTA]_vars

C10_Witness ==
    /\ branch = "reload"
    /\ event # "-RELOAD-"
    /\ last_fetch >= MIN_DELTA
    /\ pc = "loop"
    /\ last_sched = now

====
